---- MODULE Spec2Model ----
(***************************************************************************)
(* project-rc: reference-counted pointers with projection.                 *)
(*                                                                         *)
(* Three variants are modelled side by side, selected by `variant`:        *)
(*   "arc"    src/src/sync.rs    ProjectArc  (atomic count)                *)
(*   "unsync" src/src/unsync.rs  ProjectRc   (Cell count, one allocation)  *)
(*   "lib"    src/src/lib.rs     ProjectRc   (boxed ProjectionInfo + Box)  *)
(*                                                                         *)
(* Memory is a map from byte addresses to integers.  A handle is a pair of *)
(* addresses (control block, view).  Every operation is split at the       *)
(* points where it reads or writes the control block.                      *)
(***************************************************************************)
EXTENDS Integers, Sequences, FiniteSets, TLC

VARIABLES variant, payload, mem, store, handles, pc, loc, built,
          ret, sawOne, deallocCalls, dtorRuns, dtorLog, freeLog,
          leaked, plan, shared

vars == <<variant, payload, mem, store, handles, pc, loc, built,
          ret, sawOne, deallocCalls, dtorRuns, dtorLog, freeLog,
          leaked, plan, shared>>

(* ------------------------------ bounds --------------------------------- *)

\* Handles of one allocation that exist at the same time.  Each handle is
\* two words of memory, so the handles in being are always far fewer than
\* 2^UsizeBits.
MaxHandles == 2
\* Threads that may own handles of a ProjectArc.
NumThreads == 2
\* Width of usize in the model (the count is kept modulo 2^UsizeBits).
UsizeBits == 3
MaxPanics == 2
MaxLastDrops == 2
IsizeBits == 7
MaxAlignLog == 5

Threads == 1..NumThreads
Slots == 1..MaxHandles
UsizeMod == 2^UsizeBits

(* ----------------------- addresses and constants ----------------------- *)

\* size_of::<AtomicUsize>() = size_of::<DynMetadata<_>>() = one word.
WordSize == 8
\* size_of::<i32>()
I32Size == 4

\* Address returned by Global.allocate (the info box in lib.rs).
BlockBase == 64
\* Address of the Box<T> that lib.rs leaks as the payload.
DataBase == 128
\* Address of the buffer owned by the vec![1, 2, 3] payload.
HeapBase == 160
\* Address of the string literal "Hello, world!".
StaticBase == 192
\* Address of the first vtable / drop function.
VTableBase == 1000

\* What a read of memory that is not readable yields.
Poison == -1

\* The payloads of the tests.
SideEffectValue == 12345
TestArray == <<1, 2, 3>>
HelloWorld == <<72, 101, 108, 108, 111, 44, 32, 119, 111, 114, 108, 100, 33>>

Variants == {"arc", "unsync", "lib"}

\* The payload types of the tests, in vtable order.
TypeNames == <<"SideEffect", "Array3", "Vec", "StrRef", "BoxStr">>

\* size_of_val / align_of_val of each payload; BoxStr is the unsized str
\* behind From<&'static str>, whose size is the length of the string.
TypeSize(ty) ==
    CASE ty = "SideEffect" -> 2 * WordSize
      [] ty = "Array3"     -> Len(TestArray) * I32Size
      [] ty = "Vec"        -> 3 * WordSize
      [] ty = "StrRef"     -> 2 * WordSize
      [] ty = "BoxStr"     -> Len(HelloWorld)

TypeAlign(ty) ==
    CASE ty = "SideEffect" -> WordSize
      [] ty = "Array3"     -> I32Size
      [] ty = "Vec"        -> WordSize
      [] ty = "StrRef"     -> WordSize
      [] ty = "BoxStr"     -> 1

\* Only a sized type has its extent in its static type.
Sized(ty) == ty # "BoxStr"

TypeIndex(ty) == CHOOSE i \in 1..Len(TypeNames) : TypeNames[i] = ty

\* drop_meta::<T>(): the vtable pointer of T as dyn Droppable.
drop_meta(ty) == VTableBase + TypeIndex(ty)

\* Faulty vtable: the size and the alignment are read from each other's slot.
VTableSwapped(meta) ==
    IF meta - VTableBase \in 1..Len(TypeNames)
    THEN [drop_in_place |-> TypeNames[meta - VTableBase],
          size_of  |-> TypeAlign(TypeNames[meta - VTableBase]),
          align_of |-> TypeSize(TypeNames[meta - VTableBase])]
    ELSE [drop_in_place |-> "garbage", size_of |-> 0, align_of |-> 1]

\* The vtable behind a DynMetadata: drop_in_place, size_of, align_of.
VTable(meta) ==
    IF meta - VTableBase \in 1..Len(TypeNames)
    THEN [drop_in_place |-> TypeNames[meta - VTableBase],
          size_of  |-> TypeSize(TypeNames[meta - VTableBase]),
          align_of |-> TypeAlign(TypeNames[meta - VTableBase])]
    ELSE [drop_in_place |-> "garbage", size_of |-> 0, align_of |-> 1]

(* ------------------------------ layout --------------------------------- *)

\* isize::MAX, the largest size of a Layout, for a word of IsizeBits bits.
IsizeMax == 2^(IsizeBits - 1) - 1

\* The payload sizes and alignments arc_inner_layout is asked about.
PayloadSizes == 0..IsizeMax
PayloadAligns == {2^k : k \in 0..MaxAlignLog}

Max(a, b) == IF a >= b THEN a ELSE b

RoundUp(n, a) == ((n + a - 1) \div a) * a

\* Faulty extend: the next field is put right behind the last one.
LayoutExtendPacked(l, next) ==
    [layout |-> [size  |-> l.size + next.size,
                 align |-> Max(l.align, next.align)],
     offset |-> l.size]

\* Layout::extend: the next field at the first offset aligned for it.
LayoutExtend(l, next) ==
    [layout |-> [size  |-> RoundUp(l.size, next.align) + next.size,
                 align |-> Max(l.align, next.align)],
     offset |-> RoundUp(l.size, next.align)]

\* Layout::pad_to_align
PadToAlign(l) == [size |-> RoundUp(l.size, l.align), align |-> l.align]

\* Layout::from_size_align succeeds: the size, rounded up to the alignment,
\* does not exceed isize::MAX.
LayoutFits(l) == l.size <= IsizeMax - (l.align - 1)

\* What arc_inner_layout leaves when one of its unwrap calls panics.
LayoutPanic ==
    [panicked |-> TRUE, layout |-> [size |-> 0, align |-> 1],
     strong_offset |-> 0, drop_offset |-> 0, payload_offset |-> 0]

arc_inner_layout(size, align) ==
    LET l0 == [size |-> WordSize, align |-> WordSize]
        e1 == LayoutExtend(l0, [size |-> WordSize, align |-> WordSize])
        e2 == LayoutExtend(e1.layout, [size |-> size, align |-> align])
    IN  IF /\ LayoutFits(e1.layout)
           /\ LayoutFits([size |-> size, align |-> align])
           /\ LayoutFits(e2.layout)
        THEN [panicked       |-> FALSE,
              layout         |-> PadToAlign(e2.layout),
              strong_offset  |-> 0,
              drop_offset    |-> e1.offset,
              payload_offset |-> e2.offset]
        ELSE LayoutPanic

\* Field offsets of ArcInner (#[repr(C)]) and of ProjectionInfo.
StrongOffset == 0
DropOffset == WordSize
BaseOffset == WordSize
DropFnOffset == 2 * WordSize
InfoSize == 3 * WordSize

(* ------------------------------ memory --------------------------------- *)

\* The cells a function f defines, laid over m.
Overlay(f, m) == f @@ m

SeqCells(base, stride, s) ==
    [a \in {base + stride * (k - 1) : k \in 1..Len(s)} |->
        s[((a - base) \div stride) + 1]]

\* The bytes of the string literal, present from the start.
StaticCells == SeqCells(StaticBase, 1, HelloWorld)

\* The buffer of vec![1, 2, 3], owned by the Vec before it is moved in.
HeapCells == SeqCells(HeapBase, I32Size, TestArray)

\* The value written at the payload address p.
PayloadCells(p, pl) ==
    CASE pl.ty = "SideEffect" ->
            (p + pl.field0) :> SideEffectValue
      [] pl.ty = "Array3" -> SeqCells(p, I32Size, TestArray)
      [] pl.ty = "Vec" ->
            (p :> HeapBase) @@ ((p + WordSize) :> Len(TestArray))
                @@ ((p + 2 * WordSize) :> Len(TestArray))
      [] pl.ty = "StrRef" ->
            (p :> StaticBase) @@ ((p + WordSize) :> Len(HelloWorld))
      [] pl.ty = "BoxStr" -> SeqCells(p, 1, HelloWorld)

Load(a) == IF a \in DOMAIN mem THEN mem[a] ELSE Poison

(* ------------------------------- views --------------------------------- *)

NoView == [ty |-> "none", addr |-> 0, len |-> 0]

\* The pointer `new` returns, after the unsizing coercion the tests apply
\* to an array.
InitialView(p, pl) ==
    CASE pl.ty = "Array3" -> [ty |-> "slice", addr |-> p, len |-> Len(TestArray)]
      [] pl.ty = "BoxStr" -> [ty |-> "str", addr |-> p, len |-> Len(HelloWorld)]
      [] OTHER -> [ty |-> pl.ty, addr |-> p, len |-> 1]

ViewBytes(v) ==
    CASE v.ty = "i32"   -> I32Size
      [] v.ty = "slice" -> I32Size * v.len
      [] v.ty = "str"   -> v.len
      [] v.ty = "none"  -> 0
      [] OTHER -> TypeSize(v.ty)

Within(a, n, base, size) == base <= a /\ a + n <= base + size

\* The payload region fixed at construction.
InPayload(v) == Within(v.addr, ViewBytes(v), built.payload, built.size)
InHeap(v) == Within(v.addr, ViewBytes(v), HeapBase, Len(TestArray) * I32Size)
InStatic(v) == Within(v.addr, ViewBytes(v), StaticBase, Len(HelloWorld))

\* The storage holding the payload region.
PayloadStore == IF variant = "lib" THEN "data" ELSE "block"

\* The view can be read: its storage is allocated and the value in it has
\* not been destroyed.
Valid(v) ==
    \/ InPayload(v) /\ store[PayloadStore] = "live" /\ store["payload"] = "live"
    \/ InHeap(v) /\ store["heap"] = "live"
    \/ InStatic(v)

\* What *handle reads: the i32s or bytes of the view, the first field of a
\* SideEffect, the words of a Vec or &str.
Read(v) ==
    IF ~Valid(v) THEN <<Poison>>
    ELSE CASE v.ty = "i32"   -> <<Load(v.addr)>>
           [] v.ty = "slice" -> [k \in 1..v.len |-> Load(v.addr + I32Size * (k - 1))]
           [] v.ty = "str"   -> [k \in 1..v.len |-> Load(v.addr + (k - 1))]
           [] v.ty = "SideEffect" -> <<Load(v.addr + payload.field0)>>
           [] v.ty = "Vec"   -> <<Load(v.addr), Load(v.addr + 2 * WordSize)>>
           [] v.ty = "StrRef" -> <<Load(v.addr), Load(v.addr + WordSize)>>
           [] OTHER -> <<Poison>>

(* ---------------------------- projections ------------------------------ *)

NoFn == [op |-> "none", a |-> 0, b |-> 0]
DerefFn == [op |-> "deref", a |-> 0, b |-> 0]

\* The sub-ranges of a string the projections take (subslices takes 0..4).
StrRanges == {<<0, 4>>, <<1, 3>>}

\* The indices and range starts the projections take (project_slice takes
\* [0] and [1..]); an index past the end is where the bounds check fails.
IndexInputs == {0, Len(TestArray) - 1, Len(TestArray)}
RangeInputs == {1}

\* The projection closures of the tests: |s| &s.0, |s| &s[a], |s| &s[a..],
\* |s| &s[a..b].
Fns ==
    {[op |-> "field", a |-> 0, b |-> 0]}
    \cup {[op |-> "index", a |-> i, b |-> 0] : i \in IndexInputs}
    \cup {[op |-> "range", a |-> i, b |-> 0] : i \in RangeInputs}
    \cup {[op |-> "substr", a |-> r[1], b |-> r[2]] : r \in StrRanges}

\* Faulty element address: one element too far.
ElementAddrNext(base, i) == base + I32Size * (i + 1)

\* The address of element i of a slice of i32 starting at base.
ElementAddr(base, i) == base + I32Size * i

\* f returns (its bounds checks pass) on a view v.
Applicable(f, v) ==
    CASE f.op = "field"  -> v.ty = "SideEffect"
      [] f.op = "index"  -> v.ty = "slice" /\ f.a < v.len
      [] f.op = "range"  -> v.ty = "slice" /\ f.a <= v.len
      [] f.op = "substr" ->
            \/ v.ty = "str" /\ f.a <= f.b /\ f.b <= v.len
            \/ v.ty = "StrRef" /\ f.a <= f.b /\ f.b <= Load(v.addr + WordSize)
      [] f.op = "deref"  -> v.ty \in {"Vec", "StrRef"}
      [] OTHER -> FALSE

\* The reference f returns for the view v: f(&**self_).
Apply(f, v) ==
    CASE f.op = "field" -> [ty |-> "i32", addr |-> v.addr + payload.field0, len |-> 1]
      [] f.op = "index" -> [ty |-> "i32", addr |-> ElementAddr(v.addr, f.a), len |-> 1]
      [] f.op = "range" ->
            [ty |-> "slice", addr |-> ElementAddr(v.addr, f.a), len |-> v.len - f.a]
      [] f.op = "substr" /\ v.ty = "str" ->
            [ty |-> "str", addr |-> v.addr + f.a, len |-> f.b - f.a]
      [] f.op = "substr" /\ v.ty = "StrRef" ->
            [ty |-> "str", addr |-> Load(v.addr) + f.a, len |-> f.b - f.a]
      [] f.op = "deref" /\ v.ty = "Vec" ->
            [ty |-> "slice", addr |-> Load(v.addr), len |-> Load(v.addr + 2 * WordSize)]
      [] f.op = "deref" /\ v.ty = "StrRef" ->
            [ty |-> "str", addr |-> Load(v.addr), len |-> Load(v.addr + WordSize)]
      [] OTHER -> v

(* ------------------------------ handles -------------------------------- *)

NoHandle == [st |-> "none", inner |-> 0, view |-> NoView, proj |-> FALSE]

NoLoc == [slot |-> 0, self |-> NoHandle, strong |-> 0, meta |-> 0, base |-> 0, f |-> NoFn]

NoBuilt == [inner |-> 0, payload |-> 0, size |-> 0, layout |-> [size |-> 0, align |-> 1]]

NoDtor == [fn |-> "none", addr |-> 0, self |-> NoHandle]

\* No layout has been asked for.
NoPlan == [size |-> 0, align |-> 1, done |-> FALSE, out |-> LayoutPanic]

Live(h) == handles[h].st = "live"

\* Handles that have been created and whose drop has not yet taken them
\* out of the count.
Undropped == {h \in Slots : handles[h].st # "none"}

FreeSlots == {h \in Slots : handles[h].st = "none"}
FreeSlot == CHOOSE h \in FreeSlots : \A g \in FreeSlots : h <= g

Idle(t) == pc[t] = "idle"
\* Thread t may act on handle h.  A ProjectArc is Send, so whichever thread
\* acts on a handle is the one it was last moved to; a ProjectRc is neither
\* Send nor Sync, and all its handles stay on the thread that called new,
\* unless they are shared with other threads against that.
Owns(t, h) == Live(h) /\ (variant = "arc" \/ t \in shared)

\* A clone of handle h has read the count and not yet returned: h is
\* borrowed, and cannot be moved into drop or project.
Borrowed(h) == \E u \in Threads : pc[u] = "clone_set" /\ loc[u].slot = h

\* The clones that have read the count and not yet taken their handle.
ClonesUnderWay == {u \in Threads : pc[u] = "clone_set"}

\* The count field of the control block.
Strong == Load(built.inner + StrongOffset)

\* Faulty store: the count is written over the field behind it.
WriteStrongBehind(inner, c) == mem' = Overlay((inner + DropOffset) :> c, mem)

WriteStrong(inner, c) == mem' = Overlay((inner + StrongOffset) :> c, mem)

\* The control block exists: its fields have been written and not destroyed.
BlockLive == store["block"] = "live"

\* The payload of each variant under test.
PayloadsOf(v) ==
    {[ty |-> "SideEffect", field0 |-> o] : o \in {0, WordSize}}
    \cup {[ty |-> ty, field0 |-> 0] : ty \in {"Array3", "Vec", "StrRef"}}
    \cup (IF v = "lib" THEN {[ty |-> "BoxStr", field0 |-> 0]} ELSE {})

\* The state in which nothing has been called yet.
NothingBuilt ==
    /\ mem = IF payload.ty = "Vec" THEN Overlay(HeapCells, StaticCells) ELSE StaticCells
    /\ store = [r \in {"block", "payload", "data", "heap"} |->
                  IF r = "heap" /\ payload.ty = "Vec" THEN "live" ELSE "none"]
    /\ handles = [h \in Slots |-> NoHandle]
    /\ pc = [t \in Threads |-> IF t = 1 THEN "start" ELSE "idle"]
    /\ loc = [t \in Threads |-> NoLoc]
    /\ built = NoBuilt
    /\ ret = <<>>
    /\ sawOne = 0
    /\ deallocCalls = 0
    /\ dtorRuns = 0
    /\ dtorLog = NoDtor
    /\ freeLog = {}
    /\ leaked = 0

Init ==
    /\ variant \in Variants
    /\ payload \in PayloadsOf(variant)
    /\ plan = NoPlan
    /\ shared = {1}
    /\ NothingBuilt

(* ---------------------------- construction ----------------------------- *)

\* Faulty construction: the count starts at 0.
InitialStrongZero == 1 - 1

\* The count new writes: AtomicUsize::new(1), Cell::new(1).
InitialStrong == 1

\* ProjectArc::new / ProjectRc::new of sync.rs and unsync.rs.
NewInner(ok) ==
    LET layout == arc_inner_layout(TypeSize(payload.ty), TypeAlign(payload.ty))
        meta == drop_meta(payload.ty)
        ptr == BlockBase
        payload_ptr == ptr + layout.payload_offset
    IN  /\ variant \in {"arc", "unsync"}
        /\ Sized(payload.ty)
        /\ pc[1] = "start"
        /\ IF ok
           THEN /\ mem' = Overlay(((ptr + layout.strong_offset) :> InitialStrong)
                                     @@ ((ptr + layout.drop_offset) :> meta)
                                     @@ PayloadCells(payload_ptr, payload), mem)
                /\ store' = [store EXCEPT !["block"] = "live", !["payload"] = "live"]
                /\ handles' = [handles EXCEPT ![1] =
                      [st |-> "live", inner |-> ptr,
                       view |-> InitialView(payload_ptr, payload),
                       proj |-> FALSE]]
                /\ built' = [inner |-> ptr, payload |-> payload_ptr,
                             size |-> TypeSize(payload.ty), layout |-> layout.layout]
                /\ pc' = [pc EXCEPT ![1] = "idle"]
           ELSE \* handle_alloc_error
                /\ pc' = [pc EXCEPT ![1] = "aborted"]
                /\ UNCHANGED <<mem, store, handles, built>>
        /\ UNCHANGED <<shared, plan, leaked, variant, payload, loc, ret, sawOne, deallocCalls,
                       dtorRuns, dtorLog, freeLog>>

\* ProjectRc::new / from_box of lib.rs: the payload is boxed first, then the
\* ProjectionInfo. With ok false the first Box::new fails.
NewBoxed(ok) ==
    LET data == DataBase
        info == BlockBase
    IN  /\ variant = "lib"
        /\ pc[1] = "start"
        /\ IF ok
           THEN /\ mem' = Overlay(((info + StrongOffset) :> InitialStrong)
                                     @@ ((info + BaseOffset) :> data)
                                     @@ ((info + DropFnOffset) :> drop_meta(payload.ty))
                                     @@ PayloadCells(data, payload), mem)
                /\ store' = [store EXCEPT !["block"] = "live", !["payload"] = "live",
                                          !["data"] = "live"]
                /\ handles' = [handles EXCEPT ![1] =
                      [st |-> "live", inner |-> info,
                       view |-> InitialView(data, payload),
                       proj |-> FALSE]]
                /\ built' = [inner |-> info, payload |-> data,
                             size |-> TypeSize(payload.ty),
                             layout |-> [size |-> TypeSize(payload.ty),
                                         align |-> TypeAlign(payload.ty)]]
                /\ pc' = [pc EXCEPT ![1] = "idle"]
           ELSE /\ pc' = [pc EXCEPT ![1] = "aborted"]
                /\ UNCHANGED <<mem, store, handles, built>>
        /\ UNCHANGED <<shared, plan, leaked, variant, payload, loc, ret, sawOne, deallocCalls,
                       dtorRuns, dtorLog, freeLog>>

\* ProjectRc::new of lib.rs when Box::new(ProjectionInfo) fails: the payload
\* is already in its own box, which was leaked, and the process ends.
NewBoxedInfoFails ==
    /\ variant = "lib"
    /\ pc[1] = "start"
    /\ mem' = Overlay(PayloadCells(DataBase, payload), mem)
    /\ store' = [store EXCEPT !["payload"] = "live", !["data"] = "live"]
    /\ pc' = [pc EXCEPT ![1] = "aborted"]
    /\ UNCHANGED <<shared, plan, leaked, variant, payload, handles, loc, built, ret, sawOne,
                   deallocCalls, dtorRuns, dtorLog, freeLog>>

(* ------------------------ clone, project, deref ------------------------ *)

\* Faulty increment: the count is left as it was.
FetchAddNone(c) == c

\* fetch_add(1): the stored value after the increment.
FetchAdd(c) == (c + 1) % UsizeMod

\* Faulty decrement: the count is left as it was.
FetchSubNone(c) == c

\* fetch_sub(1): the stored value after the decrement.
FetchSub(c) == (c - 1) % UsizeMod

\* Faulty clone: the view goes back to the start of the payload.
CloneOfReset(hr) ==
    [hr EXCEPT !.st = "live", !.view = InitialView(built.payload, payload)]

\* The handle clone returns: both addresses copied.
CloneOf(hr) == [hr EXCEPT !.st = "live"]

\* Faulty project: the control address is taken from the new view.
ProjectedHandleRebased(hr, f) ==
    [hr EXCEPT !.inner = Apply(f, hr.view).addr, !.view = Apply(f, hr.view),
               !.proj = TRUE]

\* The handle project returns: the control address of self, the address f
\* returned.
ProjectedHandle(hr, f) == [hr EXCEPT !.view = Apply(f, hr.view), !.proj = TRUE]

\* Faulty project_clone: the clone is returned without the projection.
CloneProjectedPlain(hr, f) == CloneOf(hr)

\* The handle self.clone().project(f) returns (a plain clone when f is NoFn).
CloneProjected(hr, f) ==
    IF f = NoFn THEN CloneOf(hr) ELSE ProjectedHandle(CloneOf(hr), f)

\* project_clone<F, U> takes no U: ?Sized: f returns a sized target.
SizedTarget(f) == f.op \in {"field", "index"}

\* Clone for ProjectArc, and project_clone: one atomic read-modify-write.
ArcClone(t, h, f) ==
    /\ variant = "arc"
    /\ Idle(t) /\ Owns(t, h)
    /\ FreeSlots # {}
    /\ f = NoFn \/ (SizedTarget(f) /\ Applicable(f, handles[h].view))
    /\ WriteStrong(handles[h].inner, FetchAdd(Load(handles[h].inner + StrongOffset)))
    /\ handles' = [handles EXCEPT ![FreeSlot] = CloneProjected(handles[h], f)]
    /\ UNCHANGED <<shared, plan, leaked, variant, payload, store, pc, loc, built, ret, sawOne,
                   deallocCalls, dtorRuns, dtorLog, freeLog>>

\* Clone for ProjectRc (unsync.rs, lib.rs): strong.get() ...
RcCloneGet(t, h, f) ==
    /\ variant \in {"unsync", "lib"}
    /\ Idle(t) /\ Owns(t, h)
    /\ Cardinality(FreeSlots) > Cardinality(ClonesUnderWay)
    /\ \/ f = NoFn
       \/ variant = "unsync" /\ SizedTarget(f) /\ Applicable(f, handles[h].view)
    /\ loc' = [loc EXCEPT ![t] = [NoLoc EXCEPT !.slot = h, !.f = f,
                  !.strong = Load(handles[h].inner + StrongOffset)]]
    /\ pc' = [pc EXCEPT ![t] = "clone_set"]
    /\ UNCHANGED <<shared, plan, leaked, variant, payload, mem, store, handles, built, ret, sawOne,
                   deallocCalls, dtorRuns, dtorLog, freeLog>>

\* ... then strong.set(strong + 1) and the new handle.
RcCloneSet(t) ==
    /\ pc[t] = "clone_set"
    /\ WriteStrong(handles[loc[t].slot].inner, FetchAdd(loc[t].strong))
    /\ handles' = [handles EXCEPT ![FreeSlot] =
                      CloneProjected(handles[loc[t].slot], loc[t].f)]
    /\ pc' = [pc EXCEPT ![t] = "idle"]
    /\ loc' = [loc EXCEPT ![t] = NoLoc]
    /\ UNCHANGED <<shared, plan, leaked, variant, payload, store, built, ret, sawOne,
                   deallocCalls, dtorRuns, dtorLog, freeLog>>

\* project(self, f): self is wrapped in ManuallyDrop (forgotten in lib.rs),
\* so no drop of it runs.
Project(t, h, f) ==
    /\ Idle(t) /\ Owns(t, h) /\ ~Borrowed(h)
    /\ f \in Fns /\ Applicable(f, handles[h].view)
    /\ handles' = [handles EXCEPT ![h] = ProjectedHandle(@, f)]
    /\ UNCHANGED <<shared, plan, leaked, variant, payload, mem, store, pc, loc, built, ret, sawOne,
                   deallocCalls, dtorRuns, dtorLog, freeLog>>

\* project_deref(self) = self.project(T::deref)
ProjectDeref(t, h) ==
    /\ Idle(t) /\ Owns(t, h) /\ ~Borrowed(h)
    /\ Applicable(DerefFn, handles[h].view)
    /\ handles' = [handles EXCEPT ![h] = ProjectedHandle(@, DerefFn)]
    /\ UNCHANGED <<shared, plan, leaked, variant, payload, mem, store, pc, loc, built, ret, sawOne,
                   deallocCalls, dtorRuns, dtorLog, freeLog>>

\* Deref::deref and a read through the reference.
Deref(t, h) ==
    /\ Idle(t) /\ Owns(t, h)
    /\ ret' = Read(handles[h].view)
    /\ UNCHANGED <<shared, plan, leaked, variant, payload, mem, store, handles, pc, loc, built,
                   sawOne, deallocCalls, dtorRuns, dtorLog, freeLog>>

(* -------------------------------- drop --------------------------------- *)

\* Faulty tests of the count read by drop: one too early, and never.
IsLastEager(count) == count <= 2
IsLastNever(count) == count = 0

\* `if count == 1`: this drop is the last owner.
IsLast(count) == count = 1

OneIf(b) == IF b THEN 1 ELSE 0

\* Drop for ProjectArc: fetch_sub(1, AcqRel) returns the previous count.
ArcDrop(t, h) ==
    LET count == Load(handles[h].inner + StrongOffset)
    IN  /\ variant = "arc"
        /\ Idle(t) /\ Owns(t, h)
        /\ sawOne < MaxLastDrops
        /\ WriteStrong(handles[h].inner, FetchSub(count))
        /\ handles' = [handles EXCEPT ![h] = NoHandle]
        /\ sawOne' = sawOne + OneIf(count = 1)
        /\ IF IsLast(count)
           THEN /\ pc' = [pc EXCEPT ![t] = "dealloc_meta"]
                /\ loc' = [loc EXCEPT ![t] = [NoLoc EXCEPT !.slot = h,
                              !.self = handles[h], !.strong = count]]
           ELSE UNCHANGED <<pc, loc>>
        /\ UNCHANGED <<shared, plan, leaked, variant, payload, store, built, ret,
                       deallocCalls, dtorRuns, dtorLog, freeLog>>

\* Drop for ProjectRc (unsync.rs): strong.get() ...
RcDropGet(t, h) ==
    /\ variant = "unsync"
    /\ Idle(t) /\ Owns(t, h) /\ ~Borrowed(h)
    /\ sawOne < MaxLastDrops
    /\ handles' = [handles EXCEPT ![h].st = "busy"]
    /\ loc' = [loc EXCEPT ![t] = [NoLoc EXCEPT !.slot = h, !.self = handles[h],
                  !.strong = Load(handles[h].inner + StrongOffset)]]
    /\ pc' = [pc EXCEPT ![t] = "drop_set"]
    /\ UNCHANGED <<shared, plan, leaked, variant, payload, mem, store, built, ret, sawOne,
                   deallocCalls, dtorRuns, dtorLog, freeLog>>

\* ... then strong.set(strong - 1) and the test of the value read.
RcDropSet(t) ==
    /\ pc[t] = "drop_set"
    /\ WriteStrong(loc[t].self.inner, FetchSub(loc[t].strong))
    /\ handles' = [handles EXCEPT ![loc[t].slot] = NoHandle]
    /\ sawOne' = sawOne + OneIf(loc[t].strong = 1)
    /\ IF IsLast(loc[t].strong)
       THEN /\ pc' = [pc EXCEPT ![t] = "dealloc_meta"]
            /\ UNCHANGED loc
       ELSE /\ pc' = [pc EXCEPT ![t] = "idle"]
            /\ loc' = [loc EXCEPT ![t] = NoLoc]
    /\ UNCHANGED <<shared, plan, leaked, variant, payload, store, built, ret,
                   deallocCalls, dtorRuns, dtorLog, freeLog>>

\* The storage after the destructor of type fn has run at addr: the value is
\* gone, and a Vec has returned its buffer.
AfterDtor(st, fn, addr) ==
    [st EXCEPT
        !["payload"] = IF addr = built.payload THEN "dropped" ELSE @,
        !["heap"] = IF fn = "Vec" /\ Load(addr) = HeapBase /\ @ = "live"
                    THEN "freed" ELSE @]

\* Faulty payload address: the offset of the metadata field.
PayloadPtrHeader(inner, layout) == inner + layout.drop_offset

\* The address deallocate hands to drop_in_place.
PayloadPtr(inner, layout) == inner + layout.payload_offset

\* deallocate: let meta = (*inner).drop
DeallocMeta(t) ==
    /\ pc[t] = "dealloc_meta"
    /\ loc' = [loc EXCEPT ![t].meta = Load(loc[t].self.inner + DropOffset)]
    /\ deallocCalls' = deallocCalls + 1
    /\ pc' = [pc EXCEPT ![t] = "dealloc_drop"]
    /\ UNCHANGED <<shared, plan, leaked, variant, payload, mem, store, handles, built, ret, sawOne,
                   dtorRuns, dtorLog, freeLog>>

\* deallocate: the layout from the metadata, then drop_in_place(payload)
DeallocDrop(t) ==
    LET meta == VTable(loc[t].meta)
        layout == arc_inner_layout(meta.size_of, meta.align_of)
        ptr == PayloadPtr(loc[t].self.inner, layout)
    IN  /\ pc[t] = "dealloc_drop"
        /\ dtorRuns' = dtorRuns + 1
        /\ dtorLog' = [fn |-> meta.drop_in_place, addr |-> ptr, self |-> loc[t].self]
        /\ store' = AfterDtor(store, meta.drop_in_place, ptr)
        /\ pc' = [pc EXCEPT ![t] = "dealloc_free"]
        /\ UNCHANGED <<shared, plan, leaked, variant, payload, mem, handles, loc, built, ret, sawOne,
                       deallocCalls, freeLog>>

\* deallocate: Global.deallocate(inner, layout.layout)
DeallocFree(t) ==
    LET meta == VTable(loc[t].meta)
        layout == arc_inner_layout(meta.size_of, meta.align_of)
    IN  /\ pc[t] = "dealloc_free"
        /\ store' = [store EXCEPT !["block"] = "freed"]
        /\ freeLog' = freeLog \cup {[addr |-> loc[t].self.inner,
                                     size |-> layout.layout.size,
                                     align |-> layout.layout.align]}
        /\ pc' = [pc EXCEPT ![t] = "idle"]
        /\ loc' = [loc EXCEPT ![t] = NoLoc]
        /\ UNCHANGED <<shared, plan, leaked, variant, payload, mem, handles, built, ret, sawOne,
                       deallocCalls, dtorRuns, dtorLog>>

\* Drop for ProjectRc (lib.rs): strong.get() and the test of it.
LibDropGet(t, h) ==
    LET strong_count == Load(handles[h].inner + StrongOffset)
    IN  /\ variant = "lib"
        /\ Idle(t) /\ Owns(t, h) /\ ~Borrowed(h)
        /\ sawOne < MaxLastDrops
        /\ handles' = [handles EXCEPT ![h].st = "busy"]
        /\ loc' = [loc EXCEPT ![t] = [NoLoc EXCEPT !.slot = h, !.self = handles[h],
                      !.strong = strong_count]]
        /\ sawOne' = sawOne + OneIf(strong_count = 1)
        /\ pc' = [pc EXCEPT ![t] = IF IsLast(strong_count) THEN "lib_read" ELSE "lib_set"]
        /\ UNCHANGED <<shared, plan, leaked, variant, payload, mem, store, built, ret,
                       deallocCalls, dtorRuns, dtorLog, freeLog>>

\* lib.rs drop, else branch: strong.set(strong_count - 1)
LibDropSet(t) ==
    /\ pc[t] = "lib_set"
    /\ WriteStrong(loc[t].self.inner, FetchSub(loc[t].strong))
    /\ handles' = [handles EXCEPT ![loc[t].slot] = NoHandle]
    /\ pc' = [pc EXCEPT ![t] = "idle"]
    /\ loc' = [loc EXCEPT ![t] = NoLoc]
    /\ UNCHANGED <<shared, plan, leaked, variant, payload, store, built, ret, sawOne,
                   deallocCalls, dtorRuns, dtorLog, freeLog>>

\* lib.rs drop, last owner: erased_base and erased_drop_fn are read back.
LibDropRead(t) ==
    /\ pc[t] = "lib_read"
    /\ loc' = [loc EXCEPT ![t].base = Load(loc[t].self.inner + BaseOffset),
                          ![t].meta = Load(loc[t].self.inner + DropFnOffset)]
    /\ deallocCalls' = deallocCalls + 1
    /\ pc' = [pc EXCEPT ![t] = "lib_info"]
    /\ UNCHANGED <<shared, plan, leaked, variant, payload, mem, store, handles, built, ret, sawOne,
                   dtorRuns, dtorLog, freeLog>>

\* lib.rs drop, last owner: ptr::drop_in_place(info), which destroys the
\* ProjectionInfo where it lies and returns no storage.
LibDropInfo(t) ==
    /\ pc[t] = "lib_info"
    /\ store' = [store EXCEPT !["block"] = "dropped"]
    /\ handles' = [handles EXCEPT ![loc[t].slot] = NoHandle]
    /\ pc' = [pc EXCEPT ![t] = "lib_fn"]
    /\ UNCHANGED <<shared, plan, leaked, variant, payload, mem, loc, built, ret, sawOne,
                   deallocCalls, dtorRuns, dtorLog, freeLog>>

\* The extents drop::<Box<T>> may free when called through fn(Box<()>): the
\* size of T when T is sized; for an unsized T the length half of the fat
\* pointer was never passed, and any value may stand in for it.
BoxExtents(fn) ==
    IF fn \in {"SideEffect", "Array3", "Vec", "StrRef"}
    THEN {TypeSize(fn)}
    ELSE 0..(Len(HelloWorld) + 1)

\* lib.rs drop, last owner: erased_drop_fn(Box::from_raw(erased_base)).
\* A Box of extent 0 owns no storage and frees none.
LibDropFn(t, n) ==
    LET fn == VTable(loc[t].meta).drop_in_place
    IN  /\ pc[t] = "lib_fn"
        /\ n \in BoxExtents(fn)
        /\ dtorRuns' = dtorRuns + 1
        /\ dtorLog' = [fn |-> fn, addr |-> loc[t].base, self |-> loc[t].self]
        /\ store' = [AfterDtor(store, fn, loc[t].base) EXCEPT
                        !["data"] = IF n = 0 THEN @ ELSE "freed"]
        /\ freeLog' = IF n = 0 THEN freeLog
                      ELSE freeLog \cup {[addr |-> loc[t].base, size |-> n,
                                          align |-> TypeAlign(payload.ty)]}
        /\ pc' = [pc EXCEPT ![t] = "idle"]
        /\ loc' = [loc EXCEPT ![t] = NoLoc]
        /\ UNCHANGED <<shared, plan, leaked, variant, payload, mem, handles, built, ret, sawOne,
                       deallocCalls>>

(* ---------------------------- specification ---------------------------- *)

New == (\E ok \in BOOLEAN : NewInner(ok) \/ NewBoxed(ok)) \/ NewBoxedInfoFails

Clone == \E t \in Threads, h \in Slots : ArcClone(t, h, NoFn) \/ RcCloneGet(t, h, NoFn)

ProjectClone ==
    \E t \in Threads, h \in Slots, f \in Fns : ArcClone(t, h, f) \/ RcCloneGet(t, h, f)

Drop == \E t \in Threads, h \in Slots : ArcDrop(t, h) \/ RcDropGet(t, h) \/ LibDropGet(t, h)

Next ==
    \/ New
    \/ Clone
    \/ ProjectClone
    \/ \E t \in Threads : RcCloneSet(t)
    \/ \E t \in Threads, h \in Slots, f \in Fns : Project(t, h, f)
    \/ \E t \in Threads, h \in Slots : ProjectDeref(t, h)
    \/ \E t \in Threads, h \in Slots : Deref(t, h)
    \/ Drop
    \/ \E t \in Threads : RcDropSet(t)
    \/ \E t \in Threads : DeallocMeta(t)
    \/ \E t \in Threads : DeallocDrop(t)
    \/ \E t \in Threads : DeallocFree(t)
    \/ \E t \in Threads : LibDropSet(t)
    \/ \E t \in Threads : LibDropRead(t)
    \/ \E t \in Threads : LibDropInfo(t)
    \/ \E t \in Threads, n \in 0..(Len(HelloWorld) + 1) : LibDropFn(t, n)

Spec == Init /\ [][Next]_vars

(* ------------------- panicking projections, overflow ------------------ *)

\* f panics on the view v: the bounds check of its index or range fails.
Panics(f, v) ==
    CASE f.op = "index"  -> v.ty = "slice" /\ f.a >= v.len
      [] f.op = "range"  -> v.ty = "slice" /\ f.a > v.len
      [] f.op = "substr" ->
            \/ v.ty = "str" /\ ~(f.a <= f.b /\ f.b <= v.len)
            \/ v.ty = "StrRef" /\ ~(f.a <= f.b /\ f.b <= Load(v.addr + WordSize))
      [] OTHER -> FALSE

\* Faulty unwinding: the handle project consumed is dropped.
UnwoundDropped(c) == (c - 1) % UsizeMod

\* The count after project has unwound: self is in a ManuallyDrop (was
\* forgotten, in lib.rs) before f is called, so no drop of it runs.
Unwound(c) == c

\* project(self, f) where f panics: the call unwinds, the handle it consumed
\* is gone. At most cap handles are lost this way.
ProjectPanics(t, h, f, cap) ==
    /\ Idle(t) /\ Owns(t, h) /\ ~Borrowed(h)
    /\ f \in Fns /\ Panics(f, handles[h].view)
    /\ leaked < cap
    /\ WriteStrong(handles[h].inner, Unwound(Load(handles[h].inner + StrongOffset)))
    /\ handles' = [handles EXCEPT ![h] = NoHandle]
    /\ leaked' = leaked + 1
    /\ UNCHANGED <<shared, plan, variant, payload, store, pc, loc, built, ret, sawOne,
                   deallocCalls, dtorRuns, dtorLog, freeLog>>

PanicNext ==
    \/ Next
    \/ \E t \in Threads, h \in Slots, f \in Fns : ProjectPanics(t, h, f, MaxPanics)

\* The operations, with projection functions that may panic.
PanicSpec == Init /\ [][PanicNext]_vars

\* Clone for ProjectRc built with overflow checks: `strong + 1` panics when
\* strong is usize::MAX. (Without them it wraps: RcCloneSet.)
RcCloneOverflow(t) ==
    /\ pc[t] = "clone_set"
    /\ loc[t].strong = UsizeMod - 1
    /\ pc' = [pc EXCEPT ![t] = "idle"]
    /\ loc' = [loc EXCEPT ![t] = NoLoc]
    /\ UNCHANGED <<shared, plan, leaked, variant, payload, mem, store, handles, built, ret,
                   sawOne, deallocCalls, dtorRuns, dtorLog, freeLog>>

\* The handles that have to be lost for the count of a single held handle
\* to stand at usize::MAX.
LeakCap == UsizeMod - 2

\* The payloads of project_slice and project_deref, whose projections index
\* a slice.
OverflowInit == Init /\ payload.ty \in {"Array3", "Vec"}

OverflowNext ==
    \/ Next
    \/ \E t \in Threads, h \in Slots, f \in Fns : ProjectPanics(t, h, f, LeakCap)
    \/ \E t \in Threads : RcCloneOverflow(t)

\* The operations on a slice payload, with enough lost handles for the
\* count to run out of values.
OverflowSpec == OverflowInit /\ [][OverflowNext]_vars

(* ------------------------- layout specification ------------------------ *)

\* arc_inner_layout on its own: any payload size, any power-of-two alignment.
LayoutInit ==
    /\ variant = "arc"
    /\ payload = [ty |-> "SideEffect", field0 |-> 0]
    /\ plan \in {[NoPlan EXCEPT !.size = s, !.align = a] :
                    s \in PayloadSizes, a \in PayloadAligns}
    /\ shared = {1}
    /\ NothingBuilt

\* One call of arc_inner_layout(size, align).
ComputeLayout ==
    /\ ~plan.done
    /\ plan' = [plan EXCEPT !.done = TRUE,
                            !.out = arc_inner_layout(plan.size, plan.align)]
    /\ UNCHANGED <<shared, variant, payload, mem, store, handles, pc, loc, built, ret,
                   sawOne, deallocCalls, dtorRuns, dtorLog, freeLog, leaked>>

LayoutNext == ComputeLayout

LayoutSpec == LayoutInit /\ [][LayoutNext]_vars

(* ------------------------------ properties ----------------------------- *)

\* new has returned a handle.
Created == built # NoBuilt

Quiescent == \A t \in Threads : Idle(t)

\* Every handle derived from the one new has been dropped, and every drop
\* call has returned.
AllDropped == Created /\ Undropped = {} /\ Quiescent

\* One of the project operations takes this step.
ProjectStep ==
    \/ \E t \in Threads, h \in Slots, f \in Fns : Project(t, h, f)
    \/ \E t \in Threads, h \in Slots : ProjectDeref(t, h)

\* C1 (single release, safety): the payload destructor runs at most once,
\* never while a handle of the allocation is still un-dropped, and no
\* project step runs it.
C1_SingleRelease ==
    /\ [](/\ dtorRuns <= 1
          /\ Undropped # {} => dtorRuns = 0 /\ store["payload"] = "live")
    /\ [][ProjectStep => dtorRuns' = dtorRuns /\ store' = store]_vars

\* A projected handle and then the last drop: the destructor has run once.
C1_Witness ==
    /\ dtorRuns = 1
    /\ Undropped = {}
    /\ dtorLog.self.proj

\* The program counters of a drop call that has found itself the last owner
\* and has not yet run the destructor.
BeforeDtor == {"dealloc_meta", "dealloc_drop", "lib_read", "lib_info", "lib_fn"}

\* C2 (single release, liveness): once every handle is dropped and the drop
\* calls have returned, the destructor has run; the step that takes the last
\* handle out is a step of the drop call that goes on to run it, and the
\* destructor runs inside that call, on behalf of that handle.
C2_LastDropDestroys ==
    /\ [](AllDropped => dtorRuns = 1 /\ store["payload"] = "dropped")
    /\ [][(Undropped # {} /\ Undropped' = {}) =>
            \E t \in Threads :
                /\ pc'[t] \in BeforeDtor
                /\ Undropped = {loc'[t].slot}
                /\ loc'[t].self.view = handles[loc'[t].slot].view]_vars
    /\ [][dtorRuns' # dtorRuns =>
            \E t \in Threads :
                /\ pc[t] \in BeforeDtor
                /\ dtorLog'.self = loc[t].self
                /\ Undropped = {}]_vars

\* Two handles were made and both dropped; the drops have returned.
C2_Witness ==
    /\ AllDropped
    /\ dtorRuns = 1
    /\ Strong \in {0, 1}
    /\ ~dtorLog.self.proj

\* C3: while the control block exists, its count equals the number of
\* handles created and not yet dropped, and is at least 1 while there is one.
C3_CountIsHandles ==
    /\ (Created /\ BlockLive) => Strong = Cardinality(Undropped)
    /\ Undropped # {} => BlockLive /\ Strong >= 1

\* As many handles as fit, one of them from project_clone.
C3_Witness ==
    /\ BlockLive
    /\ Strong = MaxHandles
    /\ \E h \in Slots : Live(h) /\ handles[h].proj
    /\ \E h \in Slots : Live(h) /\ ~handles[h].proj

\* The program counters inside deallocate.
InDeallocate == {"dealloc_meta", "dealloc_drop", "dealloc_free"}

\* C4: for ProjectArc, at most one drop observes a count of 1 before its
\* decrement, deallocate is entered at most once and only by that drop, and
\* once all handles are dropped exactly one drop has done so.
C4_OneLastDrop ==
    variant = "arc" =>
        /\ sawOne <= 1
        /\ deallocCalls <= sawOne
        /\ dtorRuns <= 1
        /\ Cardinality({t \in Threads : pc[t] \in InDeallocate}) <= 1
        /\ \A t \in Threads : pc[t] \in InDeallocate => loc[t].strong = 1
        /\ AllDropped => sawOne = 1 /\ deallocCalls = 1 /\ Cardinality(freeLog) = 1

\* The second thread is the one inside deallocate.
C4_Witness ==
    /\ variant = "arc"
    /\ NumThreads >= 2
    /\ pc[NumThreads] = "dealloc_free"
    /\ sawOne = 1

\* C5: for ProjectArc, every handle a thread still holds can be dereferenced
\* and cloned: its control block and payload are not destroyed; what the
\* last deref read was readable; the destruction has no handle left to
\* follow it.
C5_NoUseAfterDestroy ==
    variant = "arc" =>
        /\ \A h \in Undropped :
              /\ BlockLive
              /\ store["payload"] = "live"
              /\ Valid(handles[h].view)
              /\ handles[h].inner = built.inner
        /\ ret # <<Poison>>
        /\ (dtorRuns > 0 \/ store["block"] = "freed") => Undropped = {}

\* A read through a handle, then the destruction by the last drop.
C5_Witness ==
    /\ variant = "arc"
    /\ store["block"] = "freed"
    /\ ret = TestArray

\* C6: project leaves the count and the control address as they are: the
\* handle stays in being with the same control address, no handle is
\* dropped, memory (the count with it) is unchanged, and only the handle
\* projected changes.
C6_ProjectFrame ==
    [][ProjectStep =>
        /\ mem' = mem
        /\ Strong' = Strong
        /\ Undropped' = Undropped
        /\ \A h \in Slots :
              /\ handles'[h].st = handles[h].st
              /\ handles'[h].inner = handles[h].inner
        /\ Cardinality({h \in Slots : handles'[h] # handles[h]}) <= 1]_vars

\* A projected handle next to another handle of the same block.
C6_Witness ==
    /\ Strong = 2
    /\ \E h \in Slots :
          /\ Live(h)
          /\ handles[h].proj
          /\ handles[h].inner = built.inner
          /\ handles[h].view.addr # built.payload

\* The view new returned.
OriginalView == InitialView(built.payload, payload)

\* C7: when every un-dropped handle is a projected one (the handle from new
\* was consumed by project), the value constructed is not destroyed; the
\* drop that takes the last of them out goes on to destroy, and what it
\* destroys is the value constructed.
C7_ProjectionKeepsAlive ==
    /\ []((Undropped # {} /\ \A h \in Undropped : handles[h].proj) =>
            /\ dtorRuns = 0
            /\ store["payload"] = "live"
            /\ store[PayloadStore] = "live"
            /\ Read(OriginalView) # <<Poison>>)
    /\ [][(/\ Undropped # {}
           /\ \A h \in Undropped : handles[h].proj
           /\ Undropped' = {}) =>
              \E t \in Threads : pc'[t] \in BeforeDtor /\ loc'[t].self.proj]_vars
    /\ []((dtorRuns > 0 /\ dtorLog.self.proj) =>
            /\ dtorRuns = 1
            /\ store["payload"] = "dropped"
            /\ dtorLog.fn = payload.ty)

\* The only handle was projected to the field, then dropped.
C7_Witness ==
    /\ AllDropped
    /\ dtorLog.self.proj
    /\ dtorLog.self.view.ty = "i32"
    /\ payload.ty = "SideEffect"
    /\ sawOne = 1

\* C8: the destructor that runs is that of the type constructed, applied to
\* the payload address fixed at construction.
C8_DtorOnOriginal ==
    dtorRuns > 0 =>
        /\ dtorLog.fn = payload.ty
        /\ dtorLog.addr = built.payload

\* The handle dropped last pointed elsewhere than the start of the payload.
C8_Witness ==
    /\ dtorRuns = 1
    /\ dtorLog.self.view.addr # built.payload
    /\ dtorLog.addr = built.payload

CloneStep ==
    \/ \E t \in Threads, h \in Slots : ArcClone(t, h, NoFn)
    \/ \E t \in Threads : RcCloneSet(t) /\ loc[t].f = NoFn

\* C10 (clone transparency): a clone adds one handle with the control and
\* view address of an existing one and raises the count by 1; and whatever
\* step is taken, a drop of another handle included, a handle that is still
\* held stays readable and reads what it read before.
C10_CloneTransparent ==
    /\ [][CloneStep =>
            /\ Strong' = Strong + 1
            /\ \E g \in Slots, h \in Slots :
                  /\ handles[g].st = "none" /\ Live(h)
                  /\ handles'[g].st = "live"
                  /\ handles'[g].inner = handles[h].inner
                  /\ handles'[g].view = handles[h].view
                  /\ \A k \in Slots \ {g} : handles'[k] = handles[k]]_vars
    /\ [][\A g \in Slots :
            (Live(g) /\ handles'[g] = handles[g]) =>
                /\ Valid(handles[g].view)'
                /\ Read(handles[g].view)' = Read(handles[g].view)]_vars

\* Two handles with the same addresses, the second a clone of a projected one.
C10_Witness ==
    \E g \in Slots, h \in Slots :
        /\ g # h
        /\ Live(g) /\ Live(h)
        /\ handles[g].view = handles[h].view
        /\ handles[g].inner = handles[h].inner
        /\ handles[g].view # OriginalView
        /\ Strong = 2
        /\ ret = Read(handles[g].view)

\* A project_clone completes in this step.
ProjectCloneStep ==
    \/ \E t \in Threads, h \in Slots, f \in Fns : ArcClone(t, h, f)
    \/ \E t \in Threads : RcCloneSet(t) /\ loc[t].f # NoFn

\* C11 (project_clone is clone then project): a project_clone raises the
\* count by 1, leaves every handle that existed as it was, the one it
\* borrowed included, and adds one handle that has the control address of
\* the borrowed handle and the view f gives on the borrowed handle's view,
\* which is the handle a clone followed by project(f) on the clone gives.
C11_ProjectCloneIsCloneThenProject ==
    [][ProjectCloneStep =>
          /\ Strong' = Strong + 1
          /\ \E g \in Slots, h \in Slots, f \in Fns :
                /\ handles[g].st = "none" /\ Live(h)
                /\ Applicable(f, handles[h].view)
                /\ handles'[g].st = "live"
                /\ handles'[g].inner = handles[h].inner
                /\ handles'[g].view = Apply(f, handles[h].view)
                /\ handles'[g] = ProjectedHandle(CloneOf(handles[h]), f)
                /\ \A k \in Slots \ {g} : handles'[k] = handles[k]]_vars

\* The original handle with its first view next to a handle projected to a
\* sized part of the payload, the count at 2.
C11_Witness ==
    \E g \in Slots, h \in Slots :
        /\ Live(g) /\ Live(h)
        /\ variant \in {"arc", "unsync"}
        /\ ~handles[h].proj /\ handles[h].view = OriginalView
        /\ handles[g].proj /\ handles[g].view.ty = "i32"
        /\ handles[g].inner = handles[h].inner
        /\ Strong = 2

\* new returns in this step.
NewReturns == pc[1] = "start" /\ pc'[1] = "idle"

\* new ends the process in this step.
NewAborts == pc[1] = "start" /\ pc'[1] = "aborted"

\* C12 (allocation failure is fatal and confined to construction): new of
\* sync.rs and unsync.rs either returns the first handle over a block that
\* was not allocated before, with the count at 1, the metadata of the payload
\* type stored and the view at the payload offset of the block, or ends the
\* process having written nothing and produced no handle; once the process
\* has ended no handle exists; and no step other than new ends the process.
C12_AllocFailureFatal ==
    /\ [][(NewReturns /\ variant \in {"arc", "unsync"}) =>
            /\ store["block"] = "none" /\ store'["block"] = "live"
            /\ Strong' = 1
            /\ Load(built.inner + DropOffset)' = drop_meta(payload.ty)
            /\ Undropped' = {1}
            /\ handles'[1].inner = built'.inner
            /\ handles'[1].view.addr = built'.inner
                  + arc_inner_layout(TypeSize(payload.ty),
                                     TypeAlign(payload.ty)).payload_offset
            /\ Read(handles[1].view)' = Read(InitialView(built.payload, payload))'
            /\ Valid(handles[1].view)']_vars
    /\ [][(NewAborts /\ variant \in {"arc", "unsync"}) =>
            /\ mem' = mem /\ store' = store /\ handles' = handles
            /\ built' = built]_vars
    /\ [](\A t \in Threads : pc[t] = "aborted" => Undropped = {} /\ ~Created)
    /\ [][\A t \in Threads :
            (pc'[t] = "aborted" /\ pc[t] # "aborted") => (t = 1 /\ pc[t] = "start")]_vars

\* The allocator refused the block of a ProjectArc.
C12_Witness ==
    /\ variant = "arc"
    /\ pc[1] = "aborted"
    /\ store["block"] = "none"
    /\ Undropped = {}

\* What the claim asks of the layout out computed for a payload of the given
\* size and alignment.
WellLaidOut(out, size, align) ==
    /\ ~out.panicked
    /\ out.strong_offset = 0
    /\ out.drop_offset >= out.strong_offset + WordSize
    /\ out.payload_offset >= out.drop_offset + WordSize
    /\ out.drop_offset % WordSize = 0
    /\ out.payload_offset % align = 0
    /\ out.layout.size >= out.payload_offset + size
    /\ out.layout.size % out.layout.align = 0
    /\ out.layout.align % align = 0 /\ out.layout.align % WordSize = 0
    /\ out.layout.size > 0

\* The block of a payload of this size and alignment, padded to the block's
\* alignment, is no larger than isize::MAX.
BlockFits(size, align) ==
    RoundUp(RoundUp(2 * WordSize, align) + size, Max(WordSize, align)) <= IsizeMax

\* C13 as stated (layout well-formedness): for every payload size and every
\* power-of-two alignment arc_inner_layout returns a layout with the count
\* at offset 0, the metadata behind it and the payload behind that, each at
\* a multiple of its alignment, and a non-zero total size that covers the
\* payload and is a multiple of the block's alignment.
C13_LayoutForEverySize ==
    plan.done => WellLaidOut(plan.out, plan.size, plan.align)

\* C13 amended: arc_inner_layout returns such a layout for every payload
\* size and power-of-two alignment whose padded block is no larger than
\* isize::MAX, and panics for every other.
C13_LayoutWhenBlockFits ==
    plan.done =>
        IF BlockFits(plan.size, plan.align)
        THEN WellLaidOut(plan.out, plan.size, plan.align)
        ELSE plan.out.panicked

\* A payload of size 0 with an alignment above that of the header: the
\* payload is moved up to offset 32 and the block has 32 bytes.
C13_Witness ==
    /\ plan.done
    /\ plan.size = 0 /\ plan.align = 4 * WordSize
    /\ ~plan.out.panicked
    /\ plan.out.payload_offset = 4 * WordSize
    /\ plan.out.layout.size = 4 * WordSize

\* The layout new computed from the static type of the payload.
ConstructionLayout ==
    arc_inner_layout(TypeSize(payload.ty), TypeAlign(payload.ty))

\* C14 (layout round trip): in sync.rs and unsync.rs the layout deallocate
\* computes from the stored metadata is the layout new computed: the block
\* is given back with the size and alignment it was allocated with, and the
\* destructor is handed the address new wrote the payload to.
C14_LayoutRoundTrip ==
    variant \in {"arc", "unsync"} =>
        /\ \A t \in Threads :
              pc[t] \in {"dealloc_drop", "dealloc_free"} =>
                  arc_inner_layout(VTable(loc[t].meta).size_of,
                                   VTable(loc[t].meta).align_of)
                      = ConstructionLayout
        /\ \A r \in freeLog :
              r = [addr |-> built.inner, size |-> built.layout.size,
                   align |-> built.layout.align]
        /\ dtorRuns > 0 =>
              dtorLog.addr = built.inner + ConstructionLayout.payload_offset
        /\ Created =>
              /\ built.layout = ConstructionLayout.layout
              /\ built.payload = built.inner + ConstructionLayout.payload_offset

\* The block of a ProjectArc over [i32; 3], whose size is padded from 28 to
\* 32 bytes, has been given back.
C14_Witness ==
    /\ variant = "arc"
    /\ payload.ty = "Array3"
    /\ freeLog = {[addr |-> built.inner, size |-> 4 * WordSize, align |-> WordSize]}
    /\ dtorLog.addr = built.payload
    /\ AllDropped

\* A deref returns in this step.
DerefStep == \E t \in Threads, h \in Slots : Deref(t, h)

\* A drop that is not the last one writes the count in this step.
NonFinalDropStep ==
    \/ \E t \in Threads, h \in Slots : ArcDrop(t, h) /\ Strong # 1
    \/ \E t \in Threads : RcDropSet(t) /\ loc[t].strong # 1
    \/ \E t \in Threads : LibDropSet(t)

\* Every cell but the count holds in the next state what it holds now.
OnlyCountWritten ==
    /\ DOMAIN mem' = DOMAIN mem
    /\ \A a \in DOMAIN mem : a # built.inner + StrongOffset => mem'[a] = mem[a]

\* C15 (frame): while the payload is alive no step writes a cell other than
\* the count, so the erasure metadata and the payload keep their values; a
\* clone, a project_clone and a drop that is not the last one change the
\* count and nothing else of the allocation; project, project_deref and
\* deref change nothing of it at all.
C15_MetadataAndPayloadKept ==
    /\ [][(Created /\ store["payload"] = "live") =>
            OnlyCountWritten /\ built' = built]_vars
    /\ [][(CloneStep \/ ProjectCloneStep \/ NonFinalDropStep) =>
            /\ OnlyCountWritten
            /\ Strong' # Strong
            /\ store' = store /\ built' = built]_vars
    /\ [][(ProjectStep \/ DerefStep) =>
            mem' = mem /\ store' = store /\ built' = built]_vars

\* After a clone, a projection, a read and the drop of the first handle the
\* second handle is left, the count is back at 1 and the metadata is the one
\* new stored.
C15_Witness ==
    /\ variant = "arc"
    /\ handles[1].st = "none" /\ Live(2) /\ handles[2].proj
    /\ Strong = 1
    /\ ret # <<>>
    /\ Load(built.inner + DropOffset) = drop_meta(payload.ty)
    /\ store["payload"] = "live"

\* C16 (erasure stores enough to recover the extent): once the last handle
\* is dropped, the destructor of the payload's type has been applied at the
\* address the payload was stored at, and the storage of the payload has
\* been given back with exactly the size and alignment it was stored with:
\* the block of sync.rs and unsync.rs, the box of lib.rs, whatever
\* constructor made it.
C16_DtorFreesStoredExtent ==
    AllDropped =>
        /\ dtorLog.fn = payload.ty
        /\ dtorLog.addr = built.payload
        /\ freeLog = {[addr  |-> IF variant = "lib" THEN built.payload ELSE built.inner,
                       size  |-> built.layout.size,
                       align |-> built.layout.align]}

\* C17 (no leak): once the last handle is dropped and its drop has returned,
\* every piece of storage construction obtained from the allocator has been
\* given back: the control block (the boxed ProjectionInfo in lib.rs), the
\* box of the payload in lib.rs, and the buffer a Vec payload owns.
C17_AllStorageReturned ==
    AllDropped =>
        /\ store["block"] = "freed"
        /\ variant = "lib" => store["data"] = "freed"
        /\ store["payload"] = "dropped"
        /\ store["heap"] # "live"

\* A clone or project_clone has read the count and not yet returned.
InClone(t) == pc[t] = "clone_set"

\* C18 (clone never fails): a clone that has started returns a new handle,
\* whatever the count is; the count equals the number of handles that were
\* created and never dropped, the lost ones included; and while a handle is
\* held no drop has found the count at 1 and destroyed the payload.
C18_CloneNeverFails ==
    /\ [][\A t \in Threads :
            (InClone(t) /\ ~InClone(t)') =>
                Cardinality(Undropped') = Cardinality(Undropped) + 1]_vars
    /\ []((Created /\ BlockLive) => Strong = Cardinality(Undropped) + leaked)
    /\ [](Undropped # {} => dtorRuns = 0 /\ BlockLive)

\* C19 (projection to an unsized part): a projection of a handle over a
\* sequence to its element i gives a view that reads that element, and a
\* projection to the sub-range from j on gives a view that reads the
\* elements from j on; for the sequence 1, 2, 3 the element 0 reads 1 and the
\* range from 1 reads 2, 3; and while one of the derived handles is held the
\* payload is not destroyed and each of them stays readable.
C19_SliceProjections ==
    /\ [][\A t \in Threads, h \in Slots, f \in Fns :
            (Project(t, h, f) /\ handles[h].view.ty = "slice") =>
                /\ f.op = "index" =>
                      Read(handles[h].view)' = <<Read(handles[h].view)[f.a + 1]>>
                /\ f.op = "range" =>
                      Read(handles[h].view)' =
                          SubSeq(Read(handles[h].view), f.a + 1,
                                 Len(Read(handles[h].view)))]_vars
    /\ [](\A h \in Undropped :
            /\ dtorRuns = 0 /\ store["payload"] = "live"
            /\ Valid(handles[h].view)
            /\ (payload.ty = "Array3" /\ handles[h].view.ty = "i32"
                   /\ handles[h].view.addr = ElementAddr(built.payload, 0))
                  => Read(handles[h].view) = <<1>>
            /\ (payload.ty = "Array3" /\ handles[h].view.ty = "slice"
                   /\ handles[h].view.addr = ElementAddr(built.payload, 1))
                  => Read(handles[h].view) = <<2, 3>>)

\* The handles p2 and p3 of the test project_slice.
C19_Witness ==
    \E g \in Slots, h \in Slots :
        /\ payload.ty = "Array3"
        /\ Live(g) /\ Live(h)
        /\ handles[g].proj /\ handles[h].proj
        /\ handles[g].inner = handles[h].inner
        /\ Read(handles[g].view) = <<1>>
        /\ Read(handles[h].view) = <<2, 3>>
        /\ store["payload"] = "live"

\* A project whose function panics unwinds in this step.
PanicStep ==
    \E t \in Threads, h \in Slots, f \in Fns : ProjectPanics(t, h, f, MaxPanics)

\* C20 (panic inside project): when the projection function panics, the
\* handle project consumed is gone without a drop of it: the count is not
\* decremented, nothing is written, destroyed or freed, so the count is one
\* further above the number of handles that can still be dropped, and every
\* other handle is as it was, readable, and reads what it read before.
C20_PanicForgetsHandle ==
    [][PanicStep =>
          /\ Strong' = Strong
          /\ mem' = mem /\ store' = store
          /\ dtorRuns' = dtorRuns /\ deallocCalls' = deallocCalls
          /\ freeLog' = freeLog
          /\ Cardinality(Undropped') = Cardinality(Undropped) - 1
          /\ Strong' - Cardinality(Undropped') = Strong - Cardinality(Undropped) + 1
          /\ \A k \in Undropped' :
                /\ handles'[k] = handles[k]
                /\ Valid(handles[k].view)' = Valid(handles[k].view)
                /\ Read(handles[k].view)' = Read(handles[k].view)]_vars

\* A clone was lost to a panicking projection: one handle is held and
\* readable, the count is 2 and nothing was destroyed.
C20_Witness ==
    \E h \in Slots :
        /\ leaked = 1
        /\ Undropped = {h} /\ Live(h)
        /\ Strong = 2
        /\ Valid(handles[h].view)
        /\ store["payload"] = "live" /\ BlockLive
        /\ dtorRuns = 0

(* -------------------- ProjectRc shared across threads ------------------ *)

\* The handles of one allocation are held by several threads, which for
\* ProjectRc no safe program can do: NonNull makes it neither Send nor Sync.
\* The two threads that run clone and drop on handles of one allocation.
RacyThreads == {t \in Threads : t <= 2}

RacyInit ==
    /\ variant \in Variants
    /\ payload \in {p \in PayloadsOf(variant) : p.ty \in {"Array3", "Vec"}}
    /\ plan = NoPlan
    /\ shared = RacyThreads
    /\ NothingBuilt

\* The count is exact: it is the number of handles created and not dropped,
\* the control block is there while one of them is, and a drop that found
\* the count at 1 is the drop of the only handle there was.
CountExact ==
    /\ (Created /\ BlockLive) => Strong = Cardinality(Undropped)
    /\ Undropped # {} => BlockLive /\ dtorRuns = 0
    /\ \A t \in Threads :
          pc[t] \in BeforeDtor \cup InDeallocate =>
              Undropped \subseteq (IF pc[t] \in {"lib_read", "lib_info"}
                                   THEN {loc[t].slot} ELSE {})

\* The operations, each thread taking the steps of its clone or drop on its
\* own handle whenever it comes to run, up to the first state in which the
\* count of a ProjectRc is not exact.
NoUpdateLost == variant = "arc" \/ CountExact

RacyNext ==
    \/ NoUpdateLost /\ New
    \/ NoUpdateLost /\ Clone
    \/ NoUpdateLost /\ ProjectClone
    \/ NoUpdateLost /\ (\E t \in Threads : RcCloneSet(t))
    \/ NoUpdateLost /\ (\E t \in Threads, h \in Slots, f \in Fns : Project(t, h, f))
    \/ NoUpdateLost /\ (\E t \in Threads, h \in Slots : ProjectDeref(t, h))
    \/ NoUpdateLost /\ (\E t \in Threads, h \in Slots : Deref(t, h))
    \/ NoUpdateLost /\ Drop
    \/ NoUpdateLost /\ (\E t \in Threads : RcDropSet(t))
    \/ NoUpdateLost /\ (\E t \in Threads : DeallocMeta(t))
    \/ NoUpdateLost /\ (\E t \in Threads : DeallocDrop(t))
    \/ NoUpdateLost /\ (\E t \in Threads : DeallocFree(t))
    \/ NoUpdateLost /\ (\E t \in Threads : LibDropSet(t))
    \/ NoUpdateLost /\ (\E t \in Threads : LibDropRead(t))
    \/ NoUpdateLost /\ (\E t \in Threads : LibDropInfo(t))
    \/ NoUpdateLost /\ (\E t \in Threads, n \in 0..(Len(HelloWorld) + 1) : LibDropFn(t, n))

RacySpec == RacyInit /\ [][RacyNext]_vars

\* Thread t is between the read and the write of the count in a clone or a
\* drop of ProjectRc.
BetweenGetAndSet(t) == pc[t] \in {"clone_set", "drop_set", "lib_set"}

\* The count thread t has read is no longer the count.
Stale(t) == BetweenGetAndSet(t) /\ loc[t].strong # Strong

\* C21 (unsynchronised count of ProjectRc): with the handles of a ProjectRc
\* held by several threads, the count stops being exact only in a step in
\* which a thread writes back a count it read before another write, and a
\* thread's read is overtaken only by the write of another thread that comes
\* between that thread's read and its write; so clones and drops whose two
\* steps are not interleaved keep the count exact.
C21_LostUpdateNeedsInterleaving ==
    /\ [][(variant # "arc" /\ CountExact /\ ~CountExact') =>
            \E t \in Threads : Stale(t) /\ pc'[t] # pc[t]]_vars
    /\ [][\A t \in Threads :
            (variant # "arc" /\ BetweenGetAndSet(t) /\ ~Stale(t) /\ Stale(t)') =>
                \E u \in Threads \ {t} :
                    BetweenGetAndSet(u) /\ pc'[u] # pc[u]]_vars
    /\ []((variant # "arc" /\ ~CountExact) => shared # {1})

\* Two drops of unsync.rs interleaved on the two handles of an allocation:
\* both read 2 and wrote 1, no handle is left and nothing was destroyed.
C21_Witness ==
    /\ variant = "unsync"
    /\ shared = RacyThreads
    /\ Created /\ Undropped = {} /\ Quiescent
    /\ BlockLive
    /\ Strong = 1
    /\ dtorRuns = 0

\* A step that reads a field of the control block.
ReadsBlockStep ==
    \/ \E t \in Threads, h \in Slots, f \in Fns \cup {NoFn} :
          ArcClone(t, h, f) \/ RcCloneGet(t, h, f)
    \/ \E t \in Threads, h \in Slots :
          ArcDrop(t, h) \/ RcDropGet(t, h) \/ LibDropGet(t, h)
    \/ \E t \in Threads : DeallocMeta(t) \/ LibDropRead(t)

\* C22 (ordering inside the final drop): the drop that destroys has read the
\* count as 1; it reads the erasure data from the control block after that
\* and before the destructor runs; the destructor runs on the payload before
\* any storage is released; the steps follow each other in that order; and
\* no step reads the control block once its storage is released.
C22_FinalDropOrder ==
    /\ [](/\ deallocCalls <= sawOne
          /\ dtorRuns <= deallocCalls
          /\ \A t \in Threads :
                pc[t] \in BeforeDtor \cup InDeallocate => loc[t].strong = 1)
    /\ [](\A t \in Threads :
            /\ pc[t] \in {"dealloc_drop", "dealloc_free"} =>
                  loc[t].meta = Load(built.inner + DropOffset)
            /\ pc[t] \in {"lib_info", "lib_fn"} =>
                  /\ loc[t].base = Load(built.inner + BaseOffset)
                  /\ loc[t].meta = Load(built.inner + DropFnOffset)
            /\ pc[t] \in {"dealloc_meta", "dealloc_drop", "lib_read", "lib_info",
                          "lib_fn"} =>
                  dtorRuns = 0 /\ store["payload"] = "live" /\ freeLog = {}
            /\ pc[t] = "dealloc_free" =>
                  dtorRuns = 1 /\ store["payload"] = "dropped" /\ freeLog = {})
    /\ []((freeLog # {} \/ store["block"] = "freed" \/ store["data"] = "freed") =>
             dtorRuns = 1 /\ store["payload"] = "dropped")
    /\ [][\A t \in Threads :
            pc'[t] # pc[t] =>
                /\ pc'[t] = "dealloc_meta" => pc[t] \in {"idle", "drop_set"}
                /\ pc'[t] = "dealloc_drop" => pc[t] = "dealloc_meta"
                /\ pc'[t] = "dealloc_free" => pc[t] = "dealloc_drop"
                /\ pc'[t] = "lib_read" => pc[t] = "idle"
                /\ pc'[t] = "lib_info" => pc[t] = "lib_read"
                /\ pc'[t] = "lib_fn" => pc[t] = "lib_info"]_vars
    /\ [][ReadsBlockStep => BlockLive]_vars

\* The destructor has returned and the block is not released yet.
C22_Witness ==
    \E t \in Threads :
        /\ pc[t] = "dealloc_free"
        /\ sawOne = 1
        /\ loc[t].meta = drop_meta(payload.ty)
        /\ dtorRuns = 1
        /\ store["payload"] = "dropped"
        /\ BlockLive
        /\ freeLog = {}

====
